---- MODULE Spec2Model ----
(***************************************************************************)
(* A model of ApiKeyAJM.py: the credential providers _BaseAPIKey,          *)
(* APIKeyFromFile and RemoteAPIKey.                                        *)
(*                                                                         *)
(* Python strings are sequences of tokens (a token is a run of characters  *)
(* that no operation of the program splits), so that strip(), the path     *)
(* suffix, URL validation and JSON decoding are computed and not assumed.  *)
(* Python values are records [t, s, m, l]: t the type, s the tokens of a   *)
(* str or num, m the items of a dict (a set of <<key, leaf>>), l the       *)
(* elements of a list; the members of a dict or list are leaves [t, s]     *)
(* (documents of depth one).                                               *)
(***************************************************************************)
EXTENDS Integers, Sequences, FiniteSets, TLC

\* ------------------------------------------------------------ bounds
\* The filesystem holds at most MaxFiles files.
MaxFiles == 1

\* ------------------------------------------------------------ Python values
PyNone == [t |-> "none", s |-> <<>>, m |-> {}, l |-> <<>>]
\* A keyword argument the caller did not pass (kwargs has no such key).
Absent == [t |-> "absent", s |-> <<>>, m |-> {}, l |-> <<>>]
Str(toks) == [t |-> "str", s |-> toks, m |-> {}, l |-> <<>>]
Num(toks) == [t |-> "num", s |-> toks, m |-> {}, l |-> <<>>]
Dict(items) == [t |-> "dict", s |-> <<>>, m |-> items, l |-> <<>>]
List(elems) == [t |-> "list", s |-> <<>>, m |-> {}, l |-> elems]
OfLeaf(leaf) == [t |-> leaf.t, s |-> leaf.s, m |-> {}, l |-> <<>>]

\* bool(v), as `not v` and `a or b` evaluate it.
Truthy(v) ==
    CASE v.t = "none" -> FALSE
      [] v.t = "absent" -> FALSE
      [] v.t = "str" -> v.s # <<>>
      [] v.t = "num" -> v.s # <<"0">>
      [] v.t = "dict" -> v.m # {}
      [] v.t = "list" -> v.l # <<>>
      [] OTHER -> TRUE

\* kwargs.get(name): None when the key is absent.
KwGet(v) == IF v.t = "absent" THEN PyNone ELSE v

\* kwargs.get(name, default)
KwGetDefault(v, default) == IF v.t = "absent" THEN default ELSE v

\* dict.get(key): the value under key, None when there is none.
DictGet(d, key) ==
    IF \E it \in d.m : it[1] = key
    THEN OfLeaf((CHOOSE it \in d.m : it[1] = key)[2])
    ELSE PyNone

\* How an f-string formats a value that is None or a str.
Format(v) == IF v.t = "none" THEN <<"None">> ELSE v.s

\* ------------------------------------------------------------ str.strip()
WS == {" ", "\n"}

RECURSIVE LStrip(_)
LStrip(toks) ==
    IF toks # <<>> /\ Head(toks) \in WS THEN LStrip(Tail(toks)) ELSE toks

RECURSIVE RStrip(_)
RStrip(toks) ==
    IF toks # <<>> /\ toks[Len(toks)] \in WS
    THEN RStrip(SubSeq(toks, 1, Len(toks) - 1))
    ELSE toks

Strip(toks) == RStrip(LStrip(toks))

\* ------------------------------------------------------------ json
Digits == {"0", "1", "5"}
Quote == "\""

RECURSIVE SkipWs(_, _)
SkipWs(toks, i) ==
    IF i <= Len(toks) /\ toks[i] \in WS THEN SkipWs(toks, i + 1) ELSE i

JsonFail == [ok |-> FALSE, leaf |-> [t |-> "none", s |-> <<>>], next |-> 0]

\* A scalar that starts at position j: a string literal, a number or null.
ParseLeafAt(toks, j) ==
    IF j > Len(toks) THEN JsonFail
    ELSE IF toks[j] = Quote
    THEN LET closing == {k \in (j + 1)..Len(toks) : toks[k] = Quote} IN
         IF closing = {} THEN JsonFail
         ELSE LET k == CHOOSE c \in closing : \A d \in closing : c <= d IN
              [ok |-> TRUE, leaf |-> [t |-> "str", s |-> SubSeq(toks, j + 1, k - 1)],
               next |-> k + 1]
    ELSE IF toks[j] \in Digits
    THEN [ok |-> TRUE, leaf |-> [t |-> "num", s |-> <<toks[j]>>], next |-> j + 1]
    ELSE IF toks[j] = "null"
    THEN [ok |-> TRUE, leaf |-> [t |-> "none", s |-> <<>>], next |-> j + 1]
    ELSE JsonFail

\* A scalar at or after position i, whitespace skipped.
ParseLeaf(toks, i) == ParseLeafAt(toks, SkipWs(toks, i))

DocFail == [ok |-> FALSE, v |-> PyNone, next |-> 0]

\* The members of an object, from position i (after "{" or ","), added to acc.
RECURSIVE ParseMembers(_, _, _)

\* After a member: "}" ends the object, "," starts the next member.
MemberEnd(toks, e, items) ==
    IF e > Len(toks) THEN DocFail
    ELSE IF toks[e] = "}" THEN [ok |-> TRUE, v |-> Dict(items), next |-> e + 1]
    ELSE IF toks[e] = "," THEN ParseMembers(toks, e + 1, items)
    ELSE DocFail

MemberValue(toks, key, val, acc) ==
    IF ~val.ok THEN DocFail
    ELSE MemberEnd(toks, SkipWs(toks, val.next),
                   {it \in acc : it[1] # key.leaf.s} \cup {<<key.leaf.s, val.leaf>>})

MemberColon(toks, key, c, acc) ==
    IF c > Len(toks) \/ toks[c] # ":" THEN DocFail
    ELSE MemberValue(toks, key, ParseLeaf(toks, c + 1), acc)

MemberKey(toks, key, acc) ==
    IF ~key.ok \/ key.leaf.t # "str" THEN DocFail
    ELSE MemberColon(toks, key, SkipWs(toks, key.next), acc)

ParseMembers(toks, i, acc) == MemberKey(toks, ParseLeaf(toks, i), acc)

\* The elements of an array, from position i (after "[" or ","), added to acc.
RECURSIVE ParseElements(_, _, _)

\* After an element: "]" ends the array, "," starts the next element.
ElementEnd(toks, e, elems) ==
    IF e > Len(toks) THEN DocFail
    ELSE IF toks[e] = "]" THEN [ok |-> TRUE, v |-> List(elems), next |-> e + 1]
    ELSE IF toks[e] = "," THEN ParseElements(toks, e + 1, elems)
    ELSE DocFail

ElementValue(toks, val, acc) ==
    IF ~val.ok THEN DocFail
    ELSE ElementEnd(toks, SkipWs(toks, val.next), Append(acc, val.leaf))

ParseElements(toks, i, acc) == ElementValue(toks, ParseLeaf(toks, i), acc)

ScalarDocument(leaf) == [ok |-> leaf.ok, v |-> OfLeaf(leaf.leaf), next |-> leaf.next]

\* After "{" or "[": the empty document, or its members.
ObjectFrom(toks, c) ==
    IF c <= Len(toks) /\ toks[c] = "}"
    THEN [ok |-> TRUE, v |-> Dict({}), next |-> c + 1]
    ELSE ParseMembers(toks, c, {})

ArrayFrom(toks, c) ==
    IF c <= Len(toks) /\ toks[c] = "]"
    THEN [ok |-> TRUE, v |-> List(<<>>), next |-> c + 1]
    ELSE ParseElements(toks, c, <<>>)

ParseValueAt(toks, j) ==
    IF j > Len(toks) THEN DocFail
    ELSE IF toks[j] = "{" THEN ObjectFrom(toks, SkipWs(toks, j + 1))
    ELSE IF toks[j] = "[" THEN ArrayFrom(toks, SkipWs(toks, j + 1))
    ELSE ScalarDocument(ParseLeafAt(toks, j))

ParseValue(toks) == ParseValueAt(toks, SkipWs(toks, 1))

\* A decoded document is the whole text: nothing but whitespace follows it.
WholeDocument(toks, r) ==
    IF r.ok /\ SkipWs(toks, r.next) > Len(toks)
    THEN [ok |-> TRUE, v |-> r.v]
    ELSE [ok |-> FALSE, v |-> PyNone]

\* json.load / response.json(): the decoded document, or a decode error.
JsonLoads(toks) == WholeDocument(toks, ParseValue(toks))

\* ------------------------------------------------------------ pathlib
\* Path(s): Path('') is the current directory '.'.
PathOf(toks) == IF toks = <<>> THEN <<".">> ELSE toks

\* The position of the last token tok of p, 0 when there is none.
LastIndex(p, tok) ==
    IF \E i \in 1..Len(p) : p[i] = tok
    THEN CHOOSE i \in 1..Len(p) : p[i] = tok /\ \A j \in (i + 1)..Len(p) : p[j] # tok
    ELSE 0

NameOrEmpty(name) == IF name = <<".">> THEN <<>> ELSE name

\* PurePath.name: the last component ('' for '.').
PathName(p) == NameOrEmpty(SubSeq(p, LastIndex(p, "/") + 1, Len(p)))

SuffixFrom(name, i) ==
    IF 1 < i /\ i < Len(name) THEN SubSeq(name, i, Len(name)) ELSE <<>>

SuffixOfName(name) == SuffixFrom(name, LastIndex(name, "."))

\* PurePath.suffix: from the last dot of the name, unless the dot is the
\* first or the last character of the name.
Suffix(p) == SuffixOfName(PathName(p))

\* suffix.split('.')[-1]
SplitLast(sfx) == IF sfx = <<>> THEN <<>> ELSE Tail(sfx)
SuffixExt(p) == SplitLast(Suffix(p))


\* ------------------------------------------------------------ state
VARIABLES
    fs,                     \* the filesystem: a set of <<path, content>>
    DEFAULT_KEY_LOCATION,   \* the class attribute APIKeyFromFile reads
    server,                 \* what the remote endpoint answers
    op,                     \* the last operation the caller ran
    kw,                     \* its keyword arguments
    arg,                    \* its key_location argument (_fetch_api_key)
    obj,                    \* the provider instance, with the exception and
                            \* the trace of I/O and log calls of the last operation
    live,                   \* the constructor returned: the caller holds obj
    ret                     \* what the last operation returned

vars == <<fs, DEFAULT_KEY_LOCATION, server, op, kw, arg, obj, live, ret>>

\* An attribute that was never assigned.
Unset == [t |-> "unset", s |-> <<>>, m |-> {}, l |-> <<>>]
PathVal(toks) == [t |-> "path", s |-> toks, m |-> {}, l |-> <<>>]

NoExc == [type |-> "none", detail |-> <<>>]

\* A fresh instance of class cls, before __init__ assigned anything.
NewObj(cls) ==
    [cls |-> cls, logger |-> "unset", api_key |-> Unset,
     api_key_location |-> Unset, file_mode |-> Unset, json_key |-> Unset,
     base_url |-> Unset, create_key_endpoint |-> Unset, full_url |-> Unset,
     exc |-> NoExc, trace |-> <<>>]

NoObj == NewObj("none")

NoKw ==
    [logger |-> "none", api_key |-> Absent, api_key_location |-> Absent,
     file_mode |-> Absent, json_key |-> Absent, base_url |-> Absent,
     create_key_endpoint |-> Absent, username |-> Absent, password |-> Absent]

Ok(o) == o.exc.type = "none"
Raise(o, type, detail) == [o EXCEPT !.exc = [type |-> type, detail |-> detail]]
Event(o, ev, what) == [o EXCEPT !.trace = Append(@, [ev |-> ev, arg |-> what])]

\* self.logger.<level>(...): an AttributeError while self.logger is unassigned.
Log(o, level) ==
    IF o.logger = "unset"
    THEN Raise(o, "AttributeError", <<"logger">>)
    ELSE Event(o, "log", <<level, o.logger>>)

\* ------------------------------------------------------------ filesystem
IsFile(p) == \E f \in fs : f[1] = p
FileContent(p) == (CHOOSE f \in fs : f[1] = p)[2]

\* Path(x).is_file(), recorded in the trace.
StatFile(o, p) == Event(o, "is_file", p)

\* ------------------------------------------------------------ _BaseAPIKey
DEFAULT_LOGGER_NAME == "dummy_logger"

BaseAPIKey_initialize_logger(o, logger) ==
    [o EXCEPT !.logger = IF logger = "injected" THEN "injected"
                         ELSE DEFAULT_LOGGER_NAME]

NotImplemented(o) ==
    Raise(o, "NotImplementedError", <<"this is meant to be implemented by a subclass">>)

\* ------------------------------------------------------------ APIKeyFromFile
VALID_FILE_MODES == {Str(<<"text">>), Str(<<"json">>)}
DEFAULT_FILE_MODE == Str(<<"text">>)

\* The file_mode property: [o, v], o with the warning it may log.
APIKeyFromFile_file_mode(o) ==
    IF Truthy(o.file_mode) /\ o.file_mode \in VALID_FILE_MODES
    THEN [o |-> IF o.file_mode = Str(<<"json">>)
                    /\ SuffixExt(o.api_key_location.s) # o.file_mode.s
                THEN Log(o, "warning") ELSE o,
          v |-> o.file_mode]
    ELSE [o |-> o, v |-> PyNone]

APIKeyFromFile_ensure_key_location_is_set(o) ==
    IF ~Truthy(o.api_key_location)
    THEN IF ~Truthy(DEFAULT_KEY_LOCATION)
         THEN Raise(o, "AttributeError",
                    <<"api_key_location or api_key were not provided and DEFAULT_KEY_LOCATION not set.">>)
         ELSE [o EXCEPT !.api_key_location = DEFAULT_KEY_LOCATION]
    ELSE o

APIKeyFromFile_prep_for_fetch(o) == APIKeyFromFile_ensure_key_location_is_set(o)

\* A variant that logs the error and does not re-raise it.
LogKeyFileNotFoundOnly(o) == Log(o, "error")

RaiseNotFound(logged) ==
    IF Ok(logged) THEN Raise(logged, "FileNotFoundError", <<"key file not found">>)
    ELSE logged

APIKeyFromFile_raise_key_file_not_found_error(o) == RaiseNotFound(Log(o, "error"))

\* json.load(f)[self._json_key]
Subscript(o, doc, key) ==
    IF doc.t = "dict"
    THEN IF \E it \in doc.m : it[1] = key.s
         THEN [o |-> o, ret |-> DictGet(doc, key.s)]
         ELSE [o |-> Raise(o, "KeyError", key.s), ret |-> PyNone]
    ELSE [o |-> Raise(o, "TypeError", <<"subscript">>), ret |-> PyNone]

\* The json branch: json.load(f), subscripted when _json_key is set.
ReadJson(o, doc) ==
    IF ~doc.ok THEN [o |-> Raise(o, "JSONDecodeError", <<>>), ret |-> PyNone]
    ELSE IF Truthy(o.json_key) THEN Subscript(o, doc.v, o.json_key)
    ELSE [o |-> o, ret |-> doc.v]

\* elif self.file_mode == 'json': mode is the property read a second time;
\* with neither branch taken the method falls off its end and returns None.
WhenModeIsJson(mode, content) ==
    IF ~Ok(mode.o) THEN [o |-> mode.o, ret |-> PyNone]
    ELSE IF mode.v = Str(<<"json">>) THEN ReadJson(mode.o, JsonLoads(content))
    ELSE [o |-> mode.o, ret |-> PyNone]

\* if self.file_mode == 'text': mode is the property read the first time.
WhenModeIsText(mode, content) ==
    IF ~Ok(mode.o) THEN [o |-> mode.o, ret |-> PyNone]
    ELSE IF mode.v = Str(<<"text">>) THEN [o |-> mode.o, ret |-> Str(Strip(content))]
    ELSE WhenModeIsJson(APIKeyFromFile_file_mode(mode.o), content)

\* The with-block of _fetch_api_key, on a path that is a file (every file of
\* the model can be opened and read).
ReadKeyFile(o, key_path) ==
    WhenModeIsText(APIKeyFromFile_file_mode(Event(o, "open", key_path)),
                   FileContent(key_path))

KeyFileNotFound(o) ==
    [o |-> APIKeyFromFile_raise_key_file_not_found_error(o), ret |-> PyNone]

\* elif self.api_key_location and Path(self.api_key_location).is_file(), o
\* with the is_file() call recorded.
ApiKeyLocationStatted(o) ==
    IF IsFile(PathOf(o.api_key_location.s))
    THEN ReadKeyFile(o, PathOf(o.api_key_location.s))
    ELSE KeyFileNotFound(o)

TryApiKeyLocation(o) ==
    IF Truthy(o.api_key_location)
    THEN ApiKeyLocationStatted(StatFile(o, PathOf(o.api_key_location.s)))
    ELSE KeyFileNotFound(o)

\* if key_location and Path(key_location).is_file(), o with the is_file()
\* call recorded.
KeyLocationStatted(o, key_location) ==
    IF IsFile(PathOf(key_location.s))
    THEN ReadKeyFile(o, PathOf(key_location.s))
    ELSE TryApiKeyLocation(o)

TryKeyLocation(o, key_location) ==
    IF Truthy(key_location)
    THEN KeyLocationStatted(StatFile(o, PathOf(key_location.s)), key_location)
    ELSE TryApiKeyLocation(o)

APIKeyFromFile_fetch_api_key(o, key_location) ==
    TryKeyLocation(Event(o, "fetch", <<>>), key_location)

\* ------------------------------------------------------------ RemoteAPIKey
\* What requests and validators take for a URL with a scheme.
Schemes == {"http", "https"}
HasScheme(url) == Len(url) >= 3 /\ url[1] \in Schemes /\ url[2] = "://"

\* validators.url(value): a scheme, "://", a host, no whitespace.
validators_url(value) ==
    /\ value.t = "str"
    /\ HasScheme(value.s)
    /\ \A i \in 3..Len(value.s) : value.s[i] \notin WS \cup {"://"}

\* A variant that returns the base URL without validating it.
UnvalidatedBaseUrl(o) ==
    [o |-> o, v |-> IF Truthy(o.base_url) THEN o.base_url ELSE PyNone]

\* The validated_base_url property: [o, v].
RemoteAPIKey_validated_base_url(o) ==
    IF Truthy(o.base_url) /\ ~validators_url(o.base_url)
    THEN [o |-> Raise(o, "ValidationError", <<"Invalid URL">>), v |-> PyNone]
    ELSE [o |-> o, v |-> IF Truthy(o.base_url) THEN o.base_url ELSE PyNone]

FullUrlFrom(base) ==
    IF ~Ok(base.o) THEN [o |-> base.o, v |-> PyNone]
    ELSE [o |-> base.o,
          v |-> Str(Format(base.v) \o <<"/">>
                        \o Format(KwGet(base.o.create_key_endpoint)))]

\* [o, v]: v the text f'{self.validated_base_url}/{self._create_key_endpoint}'
RemoteAPIKey_construct_full_url(o) == FullUrlFrom(RemoteAPIKey_validated_base_url(o))

RemoteAPIKey_prep_for_fetch(o) == o

\* response.ok: the status is below 400.
ResponseOk(status) == status < 400

\* A variant whose handler is "except requests.exceptions.RequestException".
CaughtAsAnyRequestException(type) ==
    type \in {"ConnectionError", "RequestException", "MissingSchema", "JSONDecodeError"}

\* except requests.exceptions.ConnectionError: the types the handler re-raises
\* as ConnectionError.
CaughtByConnectionHandler(type) == type = "ConnectionError"

\* return response.json()
ResponseJson(o, doc) ==
    IF doc.ok THEN [o |-> o, ret |-> doc.v]
    ELSE [o |-> Raise(o, "JSONDecodeError", <<>>), ret |-> PyNone]

\* What requests.post and the lines after it raise or return, o with the call
\* recorded.
Posted(o) ==
    IF ~HasScheme(o.full_url.s)
    THEN [o |-> Raise(o, "MissingSchema", o.full_url.s), ret |-> PyNone]
    ELSE IF ~server.reachable
    THEN [o |-> Raise(o, "ConnectionError", <<"transport">>), ret |-> PyNone]
    ELSE IF ResponseOk(server.status) THEN ResponseJson(o, JsonLoads(server.body))
    ELSE [o |-> Raise(o, "RequestException", server.body), ret |-> PyNone]

\* The try block of _fetch_api_key.
RemoteAPIKey_post(o) == Posted(Event(o, "post", o.full_url.s))

\* The except clause of _fetch_api_key.
ConnectionHandler(r) ==
    IF ~Ok(r.o) /\ CaughtByConnectionHandler(r.o.exc.type)
    THEN [o |-> Raise(r.o, "ConnectionError", r.o.exc.detail), ret |-> PyNone]
    ELSE r

RemoteAPIKey_fetch_api_key(o, username, password) ==
    ConnectionHandler(RemoteAPIKey_post(Event(o, "fetch", <<>>)))

\* ------------------------------------------------------------ dispatch
\* self._prep_for_fetch()
prep_for_fetch(o) ==
    CASE o.cls = "APIKeyFromFile" -> APIKeyFromFile_prep_for_fetch(o)
      [] o.cls = "RemoteAPIKey" -> RemoteAPIKey_prep_for_fetch(o)
      [] OTHER -> NotImplemented(o)

\* A variant in which the remote fetch takes its arguments as optional, so that
\* the call of _BaseAPIKey.__init__ runs it again.
FetchAgainWithoutArguments(o) ==
    CASE o.cls = "APIKeyFromFile" -> APIKeyFromFile_fetch_api_key(o, PyNone)
      [] o.cls = "RemoteAPIKey" -> RemoteAPIKey_fetch_api_key(o, PyNone, PyNone)
      [] OTHER -> [o |-> NotImplemented(o), ret |-> PyNone]

\* self._fetch_api_key(), as _BaseAPIKey.__init__ calls it: no arguments.
\* RemoteAPIKey._fetch_api_key requires username and password: a TypeError
\* before its body runs.
fetch_api_key(o) ==
    CASE o.cls = "APIKeyFromFile" -> APIKeyFromFile_fetch_api_key(o, PyNone)
      [] o.cls = "RemoteAPIKey" ->
            [o |-> Raise(o, "TypeError", <<"missing 2 required positional arguments">>),
             ret |-> PyNone]
      [] OTHER -> [o |-> NotImplemented(o), ret |-> PyNone]

\* ------------------------------------------------------------ constructors
\* self.api_key = self._fetch_api_key()
StoreFetched(f) == IF Ok(f.o) THEN [f.o EXCEPT !.api_key = f.ret] ELSE f.o

FetchWhenPrepared(p) == IF ~Ok(p) THEN p ELSE StoreFetched(fetch_api_key(p))

\* if not self.api_key: prepare, then fetch.
ResolveKey(o) ==
    IF ~Truthy(o.api_key) THEN FetchWhenPrepared(prep_for_fetch(o)) ELSE o

LogInitializationComplete(o) == IF Ok(o) THEN Log(o, "info") ELSE o

\* _BaseAPIKey.__init__(**k)
BaseAPIKey_init(o, k) ==
    LogInitializationComplete(
        ResolveKey([BaseAPIKey_initialize_logger(o, k.logger)
                        EXCEPT !.api_key = KwGet(k.api_key)]))

\* The _file_mode that APIKeyFromFile.__init__ leaves, the suffix looked at.
FileModeAfterInit(bySuffix, k) == KwGetDefault(k.file_mode, DEFAULT_FILE_MODE)

\* The if/elif/else on the suffix of the location.
FileModeBySuffix(o, sfx) ==
    IF sfx = <<".", "json">> THEN [o EXCEPT !.file_mode = Str(<<"json">>)]
    ELSE IF sfx = <<".", "txt">> THEN [o EXCEPT !.file_mode = Str(<<"text">>)]
    ELSE Log(o, "warning")

\* The lines of APIKeyFromFile.__init__ after the suffix was looked at.
InitAfterSuffix(o, k) ==
    IF ~Ok(o) THEN o
    ELSE BaseAPIKey_init(
             [o EXCEPT !.file_mode = FileModeAfterInit(o.file_mode, k),
                       !.json_key = KwGet(k.json_key)], k)

InitWithLocation(o, k) ==
    InitAfterSuffix(FileModeBySuffix(o, Suffix(o.api_key_location.s)), k)

\* APIKeyFromFile.__init__(**k)
APIKeyFromFile_init(o, k) ==
    IF KwGet(k.api_key_location).t # "str"
    THEN Raise(o, "TypeError", <<"expected str, bytes or os.PathLike object">>)
    ELSE InitWithLocation(
             [o EXCEPT !.api_key_location =
                           PathVal(PathOf(KwGet(k.api_key_location).s))], k)

\* The call super().__init__(api_key=self.api_key, **kwargs): a TypeError when
\* kwargs holds api_key too.
RemoteAPIKey_super_init(o, k) ==
    IF k.api_key.t # "absent"
    THEN Raise(o, "TypeError", <<"got multiple values for keyword argument 'api_key'">>)
    ELSE BaseAPIKey_init(o, [k EXCEPT !.api_key = o.api_key])

\* if isinstance(self.api_key, dict): self.api_key = self.api_key.get('api_key')
UnwrapDocument(o) ==
    IF o.api_key.t = "dict"
    THEN [o EXCEPT !.api_key = DictGet(o.api_key, <<"api_key">>)]
    ELSE o

InitAfterFetch(f, k) ==
    IF ~Ok(f.o) THEN f.o
    ELSE RemoteAPIKey_super_init(UnwrapDocument([f.o EXCEPT !.api_key = f.ret]), k)

\* None if not username or not password else self._fetch_api_key(username, password)
FirstFetch(o, username, password) ==
    IF ~Truthy(username) \/ ~Truthy(password) THEN [o |-> o, ret |-> PyNone]
    ELSE RemoteAPIKey_fetch_api_key(o, username, password)

InitWithFullUrl(url, k) ==
    IF ~Ok(url.o) THEN url.o
    ELSE InitAfterFetch(
             FirstFetch([url.o EXCEPT !.full_url = url.v],
                        KwGet(k.username), KwGet(k.password)), k)

\* RemoteAPIKey.__init__(base_url, create_key_endpoint, **k)
RemoteAPIKey_init(o, k) ==
    InitWithFullUrl(
        RemoteAPIKey_construct_full_url(
            [o EXCEPT !.base_url = KwGet(k.base_url),
                      !.create_key_endpoint = k.create_key_endpoint]), k)

\* ------------------------------------------------------------ inputs
KeyJson == <<"key", ".", "json">>
KeyTxt == <<"key", ".", "txt">>
KeyDat == <<"key", ".", "dat">>
\* The paths a file may be written at.
FsPaths == {KeyJson, KeyTxt}

TextContent == <<" ", " ", "secret123", "\n">>
JsonContent ==
    <<"{", Quote, "api_key", Quote, ":", " ", Quote, "abc", Quote, ",", " ",
      Quote, "other", Quote, ":", " ", "1", "}">>
Contents == {TextContent, JsonContent}

Supplied == Str(<<"supplied">>)
ApiKeys == {Absent, Str(<<>>), Supplied}
Loggers == {"none", "injected"}

BaseKws == {[NoKw EXCEPT !.logger = lg, !.api_key = k] : lg \in Loggers, k \in ApiKeys}

FileLocations == {Absent, Str(<<>>), Str(KeyJson), Str(KeyTxt), Str(KeyDat)}
FileModes == {Absent, PyNone, Str(<<"text">>), Str(<<"json">>), Str(<<"xml">>)}
JsonKeys == {Absent, Str(<<"api_key">>)}
FileKws ==
    {[b EXCEPT !.api_key_location = loc, !.file_mode = fm, !.json_key = jk] :
        b \in BaseKws, loc \in FileLocations, fm \in FileModes, jk \in JsonKeys}

DefaultLocations == {PyNone, Str(KeyTxt)}
Overrides == {PyNone, Str(KeyJson), Str(KeyTxt), Str(KeyDat)}

LocalUrl == <<"http", "://", "127.0.0.1", ":", "5000">>
BaseUrls == {Absent, Str(<<>>), Str(<<"not", " ", "a", " ", "url">>), Str(LocalUrl)}
Endpoint == Str(<<"get_api_key">>)
Usernames == {Absent, Str(<<"andrew">>)}
Passwords == {Absent, Str(<<"pw">>)}
RemoteKws ==
    {[b EXCEPT !.base_url = u, !.create_key_endpoint = Endpoint,
               !.username = un, !.password = pw] :
        b \in BaseKws, u \in BaseUrls, un \in Usernames, pw \in Passwords}

Bodies ==
    { <<Quote, "xyz", Quote>>,
      <<"{", Quote, "api_key", Quote, ":", " ", Quote, "xyz", Quote, "}">>,
      <<"{", Quote, "other", Quote, ":", " ", "1", "}">>,
      <<"{", "}">>,
      <<"[", "1", "]">>,
      <<"5">>,
      <<"null">>,
      <<Quote, Quote>>,
      <<"bad", " ", "creds">> }
Statuses == {200, 401}
Unreachable == [reachable |-> FALSE, status |-> 200, body |-> <<>>]
Servers ==
    {Unreachable} \cup
    {[reachable |-> TRUE, status |-> st, body |-> b] : st \in Statuses, b \in Bodies}

\* ------------------------------------------------------------ operations
Init ==
    /\ fs = {}
    /\ DEFAULT_KEY_LOCATION = PyNone
    /\ server = [reachable |-> TRUE, status |-> 200, body |-> <<Quote, "xyz", Quote>>]
    /\ op = "none"
    /\ kw = NoKw
    /\ arg = PyNone
    /\ obj = NoObj
    /\ live = FALSE
    /\ ret = PyNone

\* No provider instance exists: the environment may change.
Idle == op = "none"

\* cls(**k): the constructor; the caller keeps the instance if it returns.
Construct(cls, k, made) ==
    /\ Idle
    /\ op' = cls
    /\ kw' = k
    /\ arg' = PyNone
    /\ obj' = made
    /\ live' = Ok(made)
    /\ ret' = PyNone
    /\ UNCHANGED <<fs, DEFAULT_KEY_LOCATION, server>>

NewBaseAPIKey ==
    \E k \in BaseKws :
        Construct("_BaseAPIKey", k, BaseAPIKey_init(NewObj("_BaseAPIKey"), k))

NewAPIKeyFromFile ==
    \E k \in FileKws :
        Construct("APIKeyFromFile", k, APIKeyFromFile_init(NewObj("APIKeyFromFile"), k))

\* instance._fetch_api_key(key_location) on a constructed file provider.
CallFetchApiKey ==
    \E loc \in Overrides :
        /\ live
        /\ obj.cls = "APIKeyFromFile"
        /\ \E r \in {APIKeyFromFile_fetch_api_key(
                          [obj EXCEPT !.exc = NoExc, !.trace = <<>>], loc)} :
               /\ obj' = r.o
               /\ ret' = r.ret
        /\ op' = "_fetch_api_key"
        /\ arg' = loc
        /\ UNCHANGED <<fs, DEFAULT_KEY_LOCATION, server, kw, live>>

NewRemoteAPIKey ==
    \E k \in RemoteKws :
        Construct("RemoteAPIKey", k, RemoteAPIKey_init(NewObj("RemoteAPIKey"), k))

\* The caller drops the instance and the result.
Discard ==
    /\ ~Idle
    /\ op' = "none"
    /\ kw' = NoKw
    /\ arg' = PyNone
    /\ obj' = NoObj
    /\ live' = FALSE
    /\ ret' = PyNone
    /\ UNCHANGED <<fs, DEFAULT_KEY_LOCATION, server>>

\* ------------------------------------------------------------ environment
WriteFile ==
    \E p \in FsPaths, c \in Contents :
        /\ Idle
        /\ fs' = {f \in fs : f[1] # p} \cup {<<p, c>>}
        /\ Cardinality(fs') <= MaxFiles
        /\ UNCHANGED <<DEFAULT_KEY_LOCATION, server, op, kw, arg, obj, live, ret>>

RemoveFile ==
    \E f \in fs :
        /\ Idle
        /\ fs' = fs \ {f}
        /\ UNCHANGED <<DEFAULT_KEY_LOCATION, server, op, kw, arg, obj, live, ret>>

\* The class attribute DEFAULT_KEY_LOCATION is configured.
SetDefaultKeyLocation ==
    \E v \in DefaultLocations :
        /\ Idle
        /\ DEFAULT_KEY_LOCATION' = v
        /\ UNCHANGED <<fs, server, op, kw, arg, obj, live, ret>>

SetServer ==
    \E sv \in Servers :
        /\ Idle
        /\ server' = sv
        /\ UNCHANGED <<fs, DEFAULT_KEY_LOCATION, op, kw, arg, obj, live, ret>>

\* ------------------------------------------------------------ specifications
\* The file provider and the base class, over a changing filesystem.
Next ==
    \/ NewBaseAPIKey
    \/ NewAPIKeyFromFile
    \/ CallFetchApiKey
    \/ Discard
    \/ WriteFile
    \/ RemoveFile
    \/ SetDefaultKeyLocation

Spec == Init /\ [][Next]_vars

\* The remote provider and the base class, over a changing endpoint.
NextRemote ==
    \/ NewBaseAPIKey
    \/ NewRemoteAPIKey
    \/ Discard
    \/ SetServer

SpecRemote == Init /\ [][NextRemote]_vars


\* Every provider, over both environments.
NextAll == Next \/ NextRemote

SpecAll == Init /\ [][NextAll]_vars


\* ------------------------------------------------------------ properties
Classes == {"_BaseAPIKey", "APIKeyFromFile", "RemoteAPIKey"}

\* The last operation was the constructor of cls.
Ran(cls) == op = cls
Completed(cls) == Ran(cls) /\ Ok(obj)

Count(ev) == Cardinality({i \in DOMAIN obj.trace : obj.trace[i].ev = ev})
HasEvent(ev) == Count(ev) > 0
LoggedLast(level) ==
    /\ obj.trace # <<>>
    /\ obj.trace[Len(obj.trace)].ev = "log"
    /\ obj.trace[Len(obj.trace)].arg[1] = level

KeySupplied == Truthy(KwGet(kw.api_key))
LocationGiven == kw.api_key_location.t = "str"
LocationIsFile == LocationGiven /\ IsFile(PathOf(kw.api_key_location.s))

\* C1: whenever a non-empty api_key is supplied to the constructor of any
\* provider, construction completes, the resolved key is the supplied value,
\* and the construction touched no file and sent no HTTP request.
C1_SuppliedKeyIsAdopted ==
    \A cls \in Classes :
        (Ran(cls) /\ KeySupplied) =>
            /\ Ok(obj)
            /\ obj.api_key = kw.api_key
            /\ ~HasEvent("is_file") /\ ~HasEvent("open") /\ ~HasEvent("post")

Answered ==
    /\ HasEvent("post") /\ HasScheme(obj.full_url.s)
    /\ server.reachable
AnsweredDocument == Answered /\ server.status < 400 /\ JsonLoads(server.body).ok

\* C3: once the construction of a remote provider has completed, the resolved
\* key is a bare string, and a document response was replaced by the value
\* under "api_key".
C3_RemoteKeyIsBareString ==
    Completed("RemoteAPIKey") =>
        /\ obj.api_key.t = "str"
        /\ (AnsweredDocument /\ JsonLoads(server.body).v.t = "dict") =>
               obj.api_key = DictGet(JsonLoads(server.body).v, <<"api_key">>)

\* The first fetch of a remote construction yielded an empty or null result.
RemoteFirstFetchEmpty ==
    /\ Ran("RemoteAPIKey") /\ kw.api_key = Absent
    /\ AnsweredDocument
    /\ LET doc == JsonLoads(server.body).v IN
       ~Truthy(IF doc.t = "dict" THEN DictGet(doc, <<"api_key">>) ELSE doc)

\* C4: a construction runs the fetch at most once and performs at most one
\* file read or HTTP POST; when the first remote fetch yields an empty result
\* and the base constructor takes over, no second POST is sent.
C4_AtMostOneFetch ==
    /\ \A cls \in Classes :
           Ran(cls) =>
               /\ Count("fetch") <= 1
               /\ Count("open") + Count("post") <= 1
    /\ RemoteFirstFetchEmpty => Count("post") = 1 /\ Count("fetch") = 1

\* C4, its case: the first remote fetch yielded an empty result, the base
\* constructor's fetch step was reached, and the construction ended.
C4_Witness ==
    /\ RemoteFirstFetchEmpty
    /\ obj.logger # "unset"
    /\ obj.exc.type = "TypeError"
    /\ Count("post") = 1

BaseUrlInvalid == ~validators_url(KwGet(kw.base_url))

FailsBeforeUrlAndRequest ==
    /\ obj.exc.type = "ValidationError"
    /\ obj.exc.detail = <<"Invalid URL">>
    /\ obj.full_url = Unset
    /\ ~HasEvent("post")

FormatDeclared == Truthy(kw.file_mode)

\* C6: a construction of the file provider with a declared format other than
\* "text" or "json" is rejected: where the format decides the fetch (no
\* credential is supplied), the construction fails and never completes with a
\* key, a null key included.
C6_UnrecognizedFormatRejected ==
    ( /\ Ran("APIKeyFromFile") /\ ~KeySupplied
      /\ FormatDeclared /\ kw.file_mode \notin VALID_FILE_MODES ) => ~Ok(obj)

\* C7: the file provider built with no location and no credential uses
\* DEFAULT_KEY_LOCATION for the fetch when one is configured, and otherwise
\* fails with the AttributeError of _ensure_key_location_is_set before any
\* file access.
C7_DefaultLocationFallback ==
    (Ran("APIKeyFromFile") /\ kw.api_key_location = Absent /\ ~KeySupplied) =>
        IF Truthy(DEFAULT_KEY_LOCATION)
        THEN \E i \in DOMAIN obj.trace :
                 /\ obj.trace[i].ev = "is_file"
                 /\ obj.trace[i].arg = PathOf(DEFAULT_KEY_LOCATION.s)
        ELSE /\ obj.exc.type = "AttributeError"
             /\ obj.exc.detail # <<"logger">>
             /\ ~HasEvent("is_file") /\ ~HasEvent("open")

\* C8: with no file_mode supplied, the format the file provider reads in is
\* the one of the location's extension: json for ".json", text for ".txt".
C8_FormatFollowsExtension ==
    (Ran("APIKeyFromFile") /\ kw.file_mode = Absent /\ obj.file_mode # Unset) =>
        LET sfx == Suffix(obj.api_key_location.s)
            mode == APIKeyFromFile_file_mode(obj).v
        IN /\ sfx = <<".", "json">> => mode = Str(<<"json">>)
           /\ sfx = <<".", "txt">> => mode = Str(<<"text">>)

OtherExtension ==
    /\ LocationGiven
    /\ Suffix(PathOf(kw.api_key_location.s)) \notin {<<".", "json">>, <<".", "txt">>}

\* C9: a location whose extension is neither ".json" nor ".txt" is no error:
\* the warning is logged on the provider's logger (the injected one, or the
\* default named one), the default format applies when none is supplied, and
\* the construction goes on to the prepare and fetch steps.
C9_OtherExtensionWarnsAndProceeds ==
    (Ran("APIKeyFromFile") /\ OtherExtension) =>
        /\ obj.trace # <<>>
        /\ obj.trace[1] =
               [ev |-> "log",
                arg |-> <<"warning", IF kw.logger = "injected" THEN "injected"
                                     ELSE DEFAULT_LOGGER_NAME>>]
        /\ obj.file_mode = KwGetDefault(kw.file_mode, DEFAULT_FILE_MODE)
        /\ KeySupplied => Ok(obj)
        /\ ~KeySupplied => HasEvent("fetch")

\* C10: when the POST is answered with a non-successful status, the fetch
\* raises RequestException with the response body as its detail, the
\* connection-failure handler leaves it as it is, and the construction does
\* not complete.
C10_FailedStatusRaisesRequestException ==
    (Ran("RemoteAPIKey") /\ Answered /\ server.status >= 400) =>
        /\ obj.exc.type = "RequestException"
        /\ obj.exc.detail = server.body
        /\ ~Ok(obj)

\* C10, its case: the endpoint answered 401 with the body "bad creds".
C10_Witness ==
    /\ Ran("RemoteAPIKey") /\ Answered
    /\ server.status = 401
    /\ server.body = <<"bad", " ", "creds">>
    /\ obj.exc.type = "RequestException"

====
